---- MODULE Spec2Model ----
(***************************************************************************)
(* A model of the evalscope run controller (evalscope/run.py) and of the   *)
(* task registry of evalscope/config.py.                                   *)
(*                                                                         *)
(* Python values are records [cls, val]: cls is the Python type that       *)
(* isinstance() looks at, val the value.  A dict is a TLA+ function whose  *)
(* domain is its key set.  A string that the code inspects character by    *)
(* character (a task file path) is a tuple of characters; a directory is a *)
(* tuple of path components.                                               *)
(***************************************************************************)
EXTENDS Integers, Sequences, FiniteSets, TLC

VARIABLES
    pc,             \* position of the control flow of run_task / run_single_task
    arg,            \* the task_cfg argument run_task was called with
    run_time,       \* run_task's run_time string
    task_list,      \* the objects handed to run_single_task, in order
    cur,            \* index in task_list of the task being run
    k,              \* index in datasets of the dataset being evaluated
    eval_results,   \* run_single_task's eval_results dict
    batch_results,  \* run_task's eval_results list (batch mode)
    result,         \* what run_task returned
    exc,            \* the exception that left run_task
    log,            \* the calls made so far, in order
    rng_state,      \* the global random generator: the seed last given and its state
    registry_tasks, \* config.registry_tasks: the entry under each key
    registry_keys,  \* the keys of config.registry_tasks, in the dict's order
    reg_call,       \* the last call of TaskConfig.registry / TaskConfig.load and its outcome
    reg_before,     \* registry_tasks as that call found it
    reg_calls,      \* the number of such calls made
    text,           \* the model output handed to ResponseParser
    options,        \* the options handed to ResponseParser
    parsed,         \* what parse_first_option_with_choices returned
    input_d,        \* the dataset record handed to GPQAAdapter.gen_prompt
    prompt_log,     \* the gen_prompt calls made so far, in order
    gold,           \* what get_gold_answer returned, and after how many gen_prompt calls
    score,          \* the score handed to normalize_score
    normalized,     \* what normalize_score returned, and the warning it logged
    config,         \* a TaskConfig object: its __dict__
    restored,       \* the outcome of TaskConfig.from_dict(config.to_dict())
    result_files,   \* the per-subset result files in the work directories
    inferred        \* the subsets inference was run on, in order

ctlVars == <<pc, arg, run_time, task_list, cur, k, eval_results, batch_results,
             result, exc, log>>
runVars == <<ctlVars, rng_state>>
regVars == <<registry_tasks, registry_keys, reg_call, reg_before, reg_calls>>
vars == <<pc, arg, run_time, task_list, cur, k, eval_results, batch_results,
          result, exc, log, rng_state, registry_tasks, registry_keys, reg_call,
          reg_before, reg_calls, text, options, parsed, input_d, prompt_log, gold,
          score, normalized, config, restored, result_files, inferred>>
parseVars == <<text, options, parsed>>
gpqaVars == <<input_d, prompt_log, gold>>
utilVars == <<score, normalized, config, restored>>
\* the state of the library functions, which the registry leaves alone and
\* run_task leaves alone until a dataset is evaluated
libVars == <<parseVars, gpqaVars, utilVars, result_files, inferred>>

-----------------------------------------------------------------------------
(* Bounds *)

MaxBatch == 2       \* longest task list given to run_task
MaxDatasets == 2    \* longest datasets list of a TaskConfig
MaxCalls == 3       \* most calls of TaskConfig.registry and TaskConfig.load
MaxTokens == 3      \* most pieces a parsed text is put together from
MaxPrompts == 3     \* most gen_prompt calls on a record
MaxBits == 6        \* most binary digits after the point of a float score

-----------------------------------------------------------------------------
(* Python values *)

None == [cls |-> "NoneType", val |-> ""]
Str(s) == [cls |-> "str", val |-> s]
List(s) == [cls |-> "list", val |-> s]
Dict(d) == [cls |-> "dict", val |-> d]

EmptyDict == [n \in {} |-> n]
Get(d, key, default) == IF key \in DOMAIN d THEN d[key] ELSE default
Put(d, key, v) == [n \in DOMAIN d \cup {key} |-> IF n = key THEN v ELSE d[n]]

\* str.endswith
EndsWith(s, suffix) ==
    /\ Len(s) >= Len(suffix)
    /\ SubSeq(s, Len(s) - Len(suffix) + 1, Len(s)) = suffix

\* truth value of an Optional[str]
Truthy(v) == v.cls # "NoneType" /\ v.val # <<>>

\* os.path.join(directory, name) for a relative name
PathJoin(dir, name) == Str(dir.val \o <<name>>)

-----------------------------------------------------------------------------
(* evalscope.constants *)

NATIVE == "Native"
OPEN_COMPASS == "OpenCompass"
VLM_EVAL_KIT == "VLMEvalKit"
RAG_EVAL == "RAGEval"
THIRD_PARTY == "ThirdParty"
EvalBackends == {NATIVE, OPEN_COMPASS, VLM_EVAL_KIT, RAG_EVAL, THIRD_PARTY}

CHECKPOINT == "checkpoint"
CUSTOM == "custom"
EvalTypes == {CHECKPOINT, CUSTOM}

DEFAULT_WORK_DIR == Str(<<".", "outputs">>)
DefaultSeed == 42
keep_num == 4

-----------------------------------------------------------------------------
(* TaskConfig *)

\* every field of the dataclass
FieldNames ==
    {"model", "model_args", "template_type", "chat_template", "datasets",
     "dataset_args", "dataset_dir", "dataset_hub", "generation_config",
     "eval_type", "eval_backend", "eval_config", "stage", "limit", "mem_cache",
     "use_cache", "work_dir", "outputs", "debug", "dry_run", "seed"}

\* the fields run_single_task branches on, with their defaults
DefaultFields ==
    [model |-> None,
     datasets |-> None,
     dataset_args |-> EmptyDict,
     eval_type |-> CHECKPOINT,
     eval_backend |-> NATIVE,
     eval_config |-> None,
     use_cache |-> None,
     work_dir |-> DEFAULT_WORK_DIR,
     dry_run |-> FALSE,
     seed |-> DefaultSeed]

\* TaskConfig(**d): unknown keywords are a TypeError, missing ones take the default
TaskConfigInit(d) ==
    IF DOMAIN d \subseteq FieldNames
    THEN [ok |-> TRUE,
          obj |-> [cls |-> "TaskConfig",
                   val |-> [f \in DOMAIN DefaultFields |->
                               IF f \in DOMAIN d THEN d[f] ELSE DefaultFields[f]]],
          exc |-> [type |-> "", msg |-> ""]]
    ELSE [ok |-> FALSE, obj |-> None,
          exc |-> [type |-> "TypeError", msg |-> "unexpected keyword argument"]]

-----------------------------------------------------------------------------
(* The values run_task is called with *)

DatasetLists == UNION {[1..n -> {"arc", "humaneval"}] : n \in 0..MaxDatasets}

StrModel == Str("qwen/Qwen2-0.5B-Instruct")
CustomModelObj == [cls |-> "CustomModel", val |-> "TempModel"]
Models == {None, StrModel, CustomModelObj}

HumanevalPath == [humaneval |-> [local_path |-> Str("/data/humaneval")]]
DatasetArgs == {EmptyDict, HumanevalPath}

WorkDirs == {DEFAULT_WORK_DIR, Str(<<"wd">>)}
UseCaches == {None, Str(<<"cache">>)}
Seeds == {DefaultSeed, 7}
RunTimes == {"20240101_000000", "20240102_000000"}

ConfigFields ==
    [model : Models,
     datasets : {None} \cup {List(ds) : ds \in DatasetLists},
     dataset_args : DatasetArgs,
     eval_type : EvalTypes,
     eval_backend : EvalBackends \cup {"Unknown"},
     eval_config : {None},
     use_cache : UseCaches,
     work_dir : WorkDirs,
     dry_run : BOOLEAN,
     seed : Seeds]

Configs == {[cls |-> "TaskConfig", val |-> f] : f \in ConfigFields}

Cfg(d) == TaskConfigInit(d).obj

\* plain mappings, as in tests/cli/test_run.py
DictSpecs ==
    {Dict([model |-> StrModel, datasets |-> List(<<"arc">>), dry_run |-> FALSE, limit |-> 10]),
     Dict([model |-> CustomModelObj, datasets |-> List(<<"humaneval">>),
           dataset_args |-> HumanevalPath, eval_type |-> CUSTOM]),
     Dict([datasets |-> List(<<"arc">>)]),
     Dict([model |-> StrModel, datasets |-> List(<<"arc">>), bogus |-> 1]),
     Dict(EmptyDict)}

YamlPath == <<"a", ".", "y", "a", "m", "l">>
JsonPath == <<"b", ".", "j", "s", "o", "n">>
MissingYamlPath == <<"m", ".", "y", "a", "m", "l">>
TxtPath == <<"c", ".", "t", "x", "t">>
YmlPath == <<"a", ".", "y", "m", "l">>
BareYamlPath == <<"y", "a", "m", "l">>
\* the files on disk and the mapping each deserializes to
Files ==
    [p \in {YamlPath, JsonPath} |->
        IF p = YamlPath
        THEN [model |-> StrModel, datasets |-> List(<<"arc">>), dry_run |-> TRUE]
        ELSE [model |-> StrModel, datasets |-> List(<<"arc", "humaneval">>),
              dataset_args |-> HumanevalPath, seed |-> 7]]

\* the elements batch lists are built from
BatchElems ==
    {Cfg([model |-> StrModel, datasets |-> List(<<"arc">>), dry_run |-> TRUE]),
     Cfg([model |-> StrModel, datasets |-> List(<<"arc">>), seed |-> 7,
          work_dir |-> Str(<<"wd">>)]),
     Cfg([model |-> StrModel, datasets |-> List(<<"arc">>), use_cache |-> Str(<<"cache">>)]),
     Cfg([model |-> StrModel, datasets |-> List(<<"arc", "humaneval">>), dry_run |-> TRUE]),
     Cfg([model |-> StrModel, datasets |-> List(<<"humaneval", "arc">>),
          dataset_args |-> HumanevalPath, dry_run |-> TRUE]),
     Cfg([model |-> CustomModelObj, datasets |-> List(<<"humaneval">>),
          dataset_args |-> HumanevalPath, eval_type |-> CUSTOM]),
     Cfg([datasets |-> List(<<"arc">>)]),
     Cfg([model |-> StrModel, datasets |-> List(<<"arc">>), eval_backend |-> THIRD_PARTY]),
     Cfg([eval_backend |-> OPEN_COMPASS]),
     Dict([model |-> StrModel, datasets |-> List(<<"arc">>), dry_run |-> FALSE, limit |-> 10]),
     Str(YamlPath)}

ListSpecs == {List(l) : l \in UNION {[1..n -> BatchElems] : n \in 0..MaxBatch}}

\* config objects, mappings, file paths, objects of other types, lists
TaskSpecs ==
    Configs \cup DictSpecs
    \cup {Str(p) : p \in {YamlPath, JsonPath, MissingYamlPath, TxtPath, YmlPath, BareYamlPath}}
    \cup {[cls |-> "int", val |-> 0], None}
    \cup ListSpecs

-----------------------------------------------------------------------------
(* The task registry of config.py *)

\* the built-in tasks
tasks == <<"arc", "gsm8k", "mmlu", "cmmlu", "ceval", "bbh", "general_qa">>

\* TaskConfig.from_yaml of registry/tasks/<task>.yaml
RegistryYaml(task) ==
    Cfg([datasets |-> List(<<task>>), dataset_args |-> Put(EmptyDict, task, EmptyDict)])

\* an object of the heap: what it holds, and id(obj), which tells it from
\* every other object
Object(obj, id) == [cls |-> obj.cls, val |-> obj.val, id |-> id]

\* registry_tasks when the module has been imported: one object per task
InitialRegistry ==
    [t \in {tasks[i] : i \in DOMAIN tasks} |->
        Object(RegistryYaml(t), CHOOSE i \in DOMAIN tasks : tasks[i] = t)]

NoCall == [op |-> "none"]

-----------------------------------------------------------------------------
(* Regular expressions, as the re module matches them                      *)
(*                                                                         *)
(* A text is a tuple of characters.  The CJK characters of the patterns    *)
(* are written by their pinyin: da an (answer), shi (is), ying gai         *)
(* (should), xuan (choose), wei (is), ze, gu (so), zhi you (only), xiang   *)
(* (item), dui (right), cuo (wrong), bu (not), zheng que (correct), wu,    *)
(* shuo fa (statement), de, suo yi (therefore), suo you (all), ji, yin ci  *)
(* (hence), xian ran (clearly), gu_firm; "fullstop", "fullcomma" and       *)
(* "fullcolon" are the full-width punctuation marks.                       *)
(*                                                                         *)
(* A regular expression is a sequence of atoms.  A position in a text is   *)
(* the index of its next character.                                        *)

\* a character class is the characters in a set (neg false) or all others
InClass(ch, cls) == IF cls.neg THEN ch \notin cls.set ELSE ch \in cls.set

NoMatch == 0

\* the first non-failing of two attempts, in the order the matcher backtracks
OrElse(first, second) == IF first # NoMatch THEN first ELSE second

\* the position after the match of regex at position i the backtracking
\* matcher finds first, or NoMatch
RECURSIVE Match(_, _, _)
Match(regex, txt, i) ==
    IF regex = <<>> THEN i
    ELSE LET atom == Head(regex)
             rest == Tail(regex)
             here == i <= Len(txt) /\ InClass(txt[i], atom.cls)
         IN CASE atom.kind = "one" ->
                    IF here THEN Match(rest, txt, i + 1) ELSE NoMatch
              [] atom.kind = "opt" ->
                    OrElse(IF here THEN Match(rest, txt, i + 1) ELSE NoMatch,
                           Match(rest, txt, i))
              [] atom.kind = "star" ->
                    OrElse(IF here THEN Match(regex, txt, i + 1) ELSE NoMatch,
                           Match(rest, txt, i))
              [] atom.kind = "lazy" ->
                    OrElse(Match(rest, txt, i),
                           IF here THEN Match(regex, txt, i + 1) ELSE NoMatch)
              [] atom.kind = "bol" ->
                    IF i = 1 THEN Match(rest, txt, i) ELSE NoMatch
              [] atom.kind = "eol" ->
                    IF i = Len(txt) + 1 \/ (i = Len(txt) /\ txt[i] = "\n")
                    THEN Match(rest, txt, i) ELSE NoMatch
              [] atom.kind = "alt" ->
                    OrElse(Match(<<atom.alts[1]>> \o rest, txt, i),
                           Match(<<atom.alts[2]>> \o rest, txt, i))

\* regex.search(text): the leftmost match, and match.group(0)
search(regex, txt) ==
    LET starts == {i \in 1..Len(txt) + 1 : Match(regex, txt, i) # NoMatch} IN
    IF starts = {} THEN [found |-> FALSE, group0 |-> <<>>]
    ELSE LET start == CHOOSE i \in starts : \A j \in starts : i <= j
         IN [found |-> TRUE, group0 |-> SubSeq(txt, start, Match(regex, txt, start) - 1)]

-----------------------------------------------------------------------------
(* The global random generator *)

\* The generator is deterministic: its state is a number, a seed fixes the
\* state, and every shuffle moves it on by NextState, which visits all states.
\* rng_state keeps the seed last given beside the state.
RngStates == 24
NextState(n) == (13 * n + 1) % RngStates

\* the generator as the interpreter starts it
Unseeded == [seed |-> 0, state |-> 0]

\* seed_everything(seed): random.seed(seed)
SeedOnlyOnce(rng, seed) ==
    IF rng = Unseeded THEN [seed |-> seed, state |-> seed % RngStates] ELSE rng
seed_everything(rng, seed) == [seed |-> seed, state |-> seed % RngStates]

\* random.shuffle(x) of a list of four: for i in 3, 2, 1 (counted from 0)
\* x[i] and x[j] change places, j = randbelow(i + 1) taken from the state
shuffle(x, n) ==
    LET Swap(y, i, j) == [y EXCEPT ![i] = y[j], ![j] = y[i]]
        s3 == Swap(x, 4, (n % 4) + 1)
        s2 == Swap(s3, 3, ((n \div 4) % 3) + 1)
    IN Swap(s2, 2, ((n \div 12) % 2) + 1)

-----------------------------------------------------------------------------
(* GPQAAdapter *)

\* GPQAAdapter.choices
choices == <<"A", "B", "C", "D">>

\* the prompt_prefix of few_shot_num = 5, and the registered prompt_template
prompt_prefix == "Here are some example questions from experts. ... Question: "
prompt_template == ""

\* preprocess of __process_input: strip, two replacements and, between
\* them, the removal of every match of \[.*?\]
preprocess(t) ==
    IF t = None THEN <<" ">>
    ELSE LET RECURSIVE Replace(_, _, _)                    \* str.replace(old, new)
             Replace(s, old, new) ==
                 IF Len(s) < Len(old) THEN s
                 ELSE IF SubSeq(s, 1, Len(old)) = old
                      THEN new \o Replace(SubSeq(s, Len(old) + 1, Len(s)), old, new)
                      ELSE <<Head(s)>> \o Replace(Tail(s), old, new)
             RECURSIVE Sub(_, _)                           \* re.sub(regex, '', s)
             Sub(regex, s) ==
                 IF s = <<>> THEN <<>>
                 ELSE IF Match(regex, s, 1) # NoMatch
                      THEN Sub(regex, SubSeq(s, Match(regex, s, 1), Len(s)))
                      ELSE <<Head(s)>> \o Sub(regex, Tail(s))
             Blank == {" ", "\n", "\t"}
             Inner == {i \in DOMAIN t.val : t.val[i] \notin Blank}
             stripped ==
                 IF Inner = {} THEN <<>>
                 ELSE SubSeq(t.val, CHOOSE i \in Inner : \A j \in Inner : i <= j,
                                    CHOOSE i \in Inner : \A j \in Inner : i >= j)
             titled == Replace(stripped, <<" ", "[", "t", "i", "t", "l", "e", "]">>, <<".", " ">>)
             Bracketed ==
                 <<[kind |-> "one", cls |-> [neg |-> FALSE, set |-> {"["}], alts |-> <<>>],
                   [kind |-> "lazy", cls |-> [neg |-> TRUE, set |-> {"\n"}], alts |-> <<>>],
                   [kind |-> "one", cls |-> [neg |-> FALSE, set |-> {"]"}], alts |-> <<>>]>>
         IN Replace(Sub(Bracketed, titled), <<" ", " ">>, <<" ">>)

\* list.index(value), counted from 0
LastPosition(l, value) == 3
index(l, value) ==
    (CHOOSE i \in DOMAIN l : l[i] = value /\ \A j \in DOMAIN l : l[j] = value => i <= j) - 1

\* __process_input with the generator in state n: out_doc
process_input(input, n) ==
    LET shuffled == shuffle(<<preprocess(input["Incorrect Answer 1"]),
                              preprocess(input["Incorrect Answer 2"]),
                              preprocess(input["Incorrect Answer 3"]),
                              preprocess(input["Correct Answer"])>>, n)
        correct_answer_index == index(shuffled, preprocess(input["Correct Answer"]))
        chr(code) == <<"A", "B", "C", "D">>[code - 64]
    IN [choices |-> <<shuffled[1], shuffled[2], shuffled[3], shuffled[4]>>,
        answer |-> chr(65 + correct_answer_index)]

\* a gen_prompt that leaves an answer alone that the record has already
KeepAnswer(input, rng) ==
    LET shuffled == process_input(input, rng.state)
    IN [input_d |-> IF "answer" \in DOMAIN input THEN input
                    ELSE Put(input, "answer", shuffled.answer),
        out |-> [data |-> <<[prefix |-> prompt_prefix, question |-> input["Question"],
                             options |-> [i \in 1..Len(choices) |->
                                            <<choices[i], shuffled.choices[i]>>]]>>,
                 multi_choices |-> choices, system_prompt |-> prompt_template],
        rng |-> [rng EXCEPT !.state = NextState(@)]]

\* gen_prompt with the generator in state rng: the record as it leaves it,
\* the bundle it returns and the generator after the call.  The prompt is
\* the prefix, the question and the lines "(A) ..." of __form_options.
gen_prompt(input, rng) ==
    LET processed_input_d == process_input(input, rng.state)
        option_str == [i \in 1..Len(choices) |-> <<choices[i], processed_input_d.choices[i]>>]
        prompt == [prefix |-> prompt_prefix, question |-> input["Question"],
                   options |-> option_str]
    IN [input_d |-> Put(input, "answer", processed_input_d.answer),
        out |-> [data |-> <<prompt>>, multi_choices |-> choices,
                 system_prompt |-> prompt_template],
        rng |-> [rng EXCEPT !.state = NextState(@)]]

\* get_gold_answer: input_d['answer'], a KeyError on a record without the field
get_gold_answer(input) ==
    IF "answer" \in DOMAIN input
    THEN [ok |-> TRUE, val |-> input["answer"]]
    ELSE [ok |-> FALSE, val |-> "KeyError"]

\* a record of the dataset
Record(incorrect1, incorrect2, incorrect3, correct) ==
    [f \in {"Question", "Incorrect Answer 1", "Incorrect Answer 2", "Incorrect Answer 3",
            "Correct Answer"} |->
        CASE f = "Question" -> "What is 2 + 2?"
          [] f = "Incorrect Answer 1" -> incorrect1
          [] f = "Incorrect Answer 2" -> incorrect2
          [] f = "Incorrect Answer 3" -> incorrect3
          [] f = "Correct Answer" -> correct]

\* one gen_prompt call as prompt_log keeps it
PromptCall(task, ds, input, rng) ==
    [task |-> task, ds |-> ds, rng |-> rng, input |-> input,
     answer |-> gen_prompt(input, rng).input_d["answer"], out |-> gen_prompt(input, rng).out]

\* the records an Evaluator reads from a dataset
Examples ==
    <<Record(Str(<<"3">>), Str(<<"5">>), Str(<<"6">>), Str(<<"4">>)),
      Record(Str(<<"4">>), Str(<<"5">>), None, Str(<<" ", "4">>))>>

\* Evaluator.eval: one gen_prompt call per record, in order
RECURSIVE EvalPrompts(_, _, _, _)
EvalPrompts(records, rng, task, ds) ==
    IF records = <<>> THEN [calls |-> <<>>, rng |-> rng]
    ELSE LET rest == EvalPrompts(Tail(records), gen_prompt(Head(records), rng).rng, task, ds)
         IN [calls |-> <<PromptCall(task, ds, Head(records), rng)>> \o rest.calls,
             rng |-> rest.rng]

-----------------------------------------------------------------------------
(* The Evaluator's per-subset result files *)

\* in_subset_list: dataset_args[dataset_name]['subset_list'], or the SUBSET_LIST
\* of the benchmark module
in_subset_list(cfg, name) ==
    Get(Get(cfg.dataset_args, name, EmptyDict), "subset_list",
        List(<<"ARC-Easy", "ARC-Challenge">>))

\* what earlier runs (run 0) left in the directory "cache": nothing, the result
\* of one subset of arc, the results of both
PriorResults ==
    {{[dir |-> Str(<<"cache">>), name |-> "arc", subset |-> subset, run |-> 0] :
         subset \in done} :
       done \in {{}, {"ARC-Easy"}, {"ARC-Easy", "ARC-Challenge"}}}

\* the subsets an Evaluator given use_cache finds a result file of in its
\* outputs directory; it skips inference for them
Completed(files, use_cache, dir, name) ==
    IF Truthy(use_cache)
    THEN {f.subset : f \in {g \in files : g.dir = dir /\ g.name = name}}
    ELSE {}

-----------------------------------------------------------------------------
(* State *)

NoExc == [type |-> "", msg |-> ""]
Exc(type, msg) == [type |-> type, msg |-> msg]

\* the exceptions of run.py
ModelDatasetsError == Exc("ValueError", "Please provide model and datasets")
LocalPathError == Exc("ValueError", "Please specify the local problem path of humaneval")
UnsupportedFormatError == Exc("ValueError", "Unsupported file format")
InvalidConfigError == Exc("ValueError", "Please provide a valid task config")
CustomModelError == Exc("ValueError", "Expected evalscope.models.custom.CustomModel")
ThirdPartyError == Exc("NotImplementedError", "Not implemented for evaluation backend")
SeedAttributeError == Exc("AttributeError", "object has no attribute seed")
FileNotFoundError == Exc("FileNotFoundError", "no such file")

Event(ev, what) == [ev |-> ev, task |-> cur, ds |-> k, what |-> what]

\* run_task not called, the registry as imported, the work directories as
\* earlier runs left them
InitProgram ==
    /\ pc = "idle"
    /\ arg = None
    /\ run_time = ""
    /\ task_list = <<>>
    /\ cur = 0
    /\ k = 0
    /\ eval_results = EmptyDict
    /\ batch_results = <<>>
    /\ result = None
    /\ exc = NoExc
    /\ log = <<>>
    /\ rng_state = Unseeded
    /\ registry_tasks = InitialRegistry
    /\ registry_keys = tasks
    /\ reg_call = NoCall
    /\ reg_before = InitialRegistry
    /\ reg_calls = 0
    /\ result_files \in PriorResults
    /\ inferred = <<>>

\* nothing handed to ResponseParser
NothingParsed ==
    /\ text = <<>>
    /\ options = <<>>
    /\ parsed = None

\* no record handed to a data adapter
NoPrompts ==
    /\ input_d = EmptyDict
    /\ prompt_log = <<>>
    /\ gold = None

\* normalize_score not called, no TaskConfig under construction
Unused ==
    /\ score = None
    /\ normalized = None
    /\ config = None
    /\ restored = None

Init ==
    /\ InitProgram
    /\ NothingParsed
    /\ NoPrompts
    /\ Unused

\* the task_cfg object of the running run_single_task call
task_cfg == task_list[cur]
IsBatch == arg.cls = "list"

\* an exception nobody catches: it leaves run_single_task and run_task
SwallowInBatch(e) ==
    /\ pc' = (IF arg.cls = "list" THEN "batch_loop" ELSE "raised")
    /\ exc' = e
Raise(e) ==
    /\ pc' = "raised"
    /\ exc' = e

-----------------------------------------------------------------------------
(* run_task *)

Failed(e) == [ok |-> FALSE, obj |-> None, exc |-> e]

\* yaml_to_dict / json_to_dict followed by TaskConfig(**task_cfg_dict)
LoadConfigFile(path) ==
    IF path \in DOMAIN Files
    THEN TaskConfigInit(Files[path])
    ELSE Failed(FileNotFoundError)

\* the files run_task opens for a task_cfg that is not a list
FilesRead(spec) ==
    IF spec.cls = "str" /\ (EndsWith(spec.val, <<".", "y", "a", "m", "l">>)
                            \/ EndsWith(spec.val, <<".", "j", "s", "o", "n">>))
    THEN <<[ev |-> "read_file", task |-> 0, ds |-> 0, what |-> "config"]>>
    ELSE <<>>

\* run_task's isinstance ladder for a task_cfg that is not a list
NormalizeAnyPath(spec) ==
    IF spec.cls = "TaskConfig" THEN [ok |-> TRUE, obj |-> spec, exc |-> NoExc]
    ELSE IF spec.cls = "dict" THEN TaskConfigInit(spec.val)
    ELSE IF spec.cls = "str" THEN LoadConfigFile(spec.val)
    ELSE Failed(InvalidConfigError)
Normalize(spec) ==
    IF spec.cls = "TaskConfig" THEN [ok |-> TRUE, obj |-> spec, exc |-> NoExc]
    ELSE IF spec.cls = "dict" THEN TaskConfigInit(spec.val)
    ELSE IF spec.cls = "str" THEN
        IF EndsWith(spec.val, <<".", "y", "a", "m", "l">>) THEN LoadConfigFile(spec.val)
        ELSE IF EndsWith(spec.val, <<".", "j", "s", "o", "n">>) THEN LoadConfigFile(spec.val)
        ELSE Failed(UnsupportedFormatError)
    ELSE Failed(InvalidConfigError)

\* the objects run_task hands to run_single_task for a list
NormalizedBatchTasks(spec) ==
    [i \in 1..Len(spec.val) |->
        IF Normalize(spec.val[i]).ok THEN Normalize(spec.val[i]).obj ELSE spec.val[i]]
BatchTasks(spec) == spec.val

\* eval_results.append(...) of the batch loop
PrependResult(results, res) == <<res>> \o results
AppendResult(results, res) == Append(results, res)

\* run_task up to its first call of run_single_task
RunTask(spec, now) ==
    /\ pc = "idle"
    /\ arg' = spec
    /\ run_time' = now
    /\ cur' = (IF spec.cls = "list" THEN 0 ELSE 1)
    /\ IF spec.cls = "list"
       THEN /\ task_list' = BatchTasks(spec)
            /\ pc' = "batch_loop"
            /\ UNCHANGED <<exc, log>>
       ELSE LET n == Normalize(spec) IN
            /\ log' = log \o FilesRead(spec)
            /\ IF n.ok
               THEN /\ task_list' = <<n.obj>>
                    /\ pc' = "call"
                    /\ UNCHANGED exc
               ELSE /\ Raise(n.exc)
                    /\ UNCHANGED task_list
    /\ UNCHANGED <<k, eval_results, batch_results, result, rng_state, regVars, libVars>>

\* the batch loop: the next element, or the end of the list
BatchLoop ==
    /\ pc = "batch_loop"
    /\ IF cur < Len(task_list)
       THEN /\ cur' = cur + 1
            /\ pc' = "call"
            /\ UNCHANGED result
       ELSE /\ pc' = "done"
            /\ result' = List(batch_results)
            /\ UNCHANGED cur
    /\ UNCHANGED <<arg, run_time, task_list, k, eval_results, batch_results,
                   exc, log, rng_state, regVars, libVars>>

\* run_single_task returned: append to the batch list, or return the dict
TaskReturn ==
    /\ pc = "task_ret"
    /\ IF IsBatch
       THEN /\ batch_results' = AppendResult(batch_results, eval_results)
            /\ pc' = "batch_loop"
            /\ UNCHANGED result
       ELSE /\ result' = Dict(eval_results)
            /\ pc' = "done"
            /\ UNCHANGED batch_results
    /\ UNCHANGED <<arg, run_time, task_list, cur, k, eval_results, exc, log,
                   rng_state, regVars, libVars>>

-----------------------------------------------------------------------------
(* run_single_task *)

\* a work directory that gets the run time appended whatever it is
JoinRunTime(cfg, now) ==
    IF Truthy(cfg.use_cache) THEN cfg.use_cache ELSE PathJoin(cfg.work_dir, now)

\* a work directory that use_cache has no part in
IgnoreUseCache(cfg, now) ==
    IF cfg.work_dir = DEFAULT_WORK_DIR THEN PathJoin(cfg.work_dir, now) ELSE cfg.work_dir

\* the work directory after "Set work_dir"
ResolveWorkDir(cfg, now) ==
    IF Truthy(cfg.use_cache) THEN cfg.use_cache
    ELSE IF cfg.work_dir = DEFAULT_WORK_DIR THEN PathJoin(cfg.work_dir, now)
    ELSE cfg.work_dir

\* seed_everything(task_cfg.seed) and the work directory; an object without
\* a seed attribute (a dict, a str) is an AttributeError
SetUp ==
    /\ pc = "call"
    /\ k' = 0
    /\ eval_results' = EmptyDict
    /\ IF task_cfg.cls = "TaskConfig"
       THEN /\ rng_state' = seed_everything(rng_state, task_cfg.val.seed)
            /\ task_list' = [task_list EXCEPT
                                ![cur].val.work_dir = ResolveWorkDir(task_cfg.val, run_time)]
            /\ log' = Append(log, [ev |-> "seed", task |-> cur, ds |-> 0, what |-> "seed_everything"])
            /\ pc' = "backend"
            /\ UNCHANGED exc
       ELSE /\ Raise(SeedAttributeError)
            /\ UNCHANGED <<rng_state, task_list, log>>
    /\ UNCHANGED <<arg, run_time, cur, batch_results, result, regVars, libVars>>

IsNotNative(cfg) == cfg.eval_backend # NATIVE
IsNative(cfg) == cfg.eval_backend = NATIVE

\* the backend manager that is run for an eval_backend, "" if none is
BackendManager(backend) ==
    IF backend = OPEN_COMPASS THEN "OpenCompassBackendManager"
    ELSE IF backend = VLM_EVAL_KIT THEN "VLMEvalKitBackendManager"
    ELSE IF backend = RAG_EVAL THEN "RAGEvalBackendManager"
    ELSE ""

\* eval_backend != EvalBackend.NATIVE: hand over to the backend, return dict()
Dispatch ==
    /\ pc = "backend"
    /\ ~IsNative(task_cfg.val)
    /\ LET backend == task_cfg.val.eval_backend IN
       IF backend = THIRD_PARTY
       THEN /\ Raise(ThirdPartyError)
            /\ UNCHANGED <<log, eval_results>>
       ELSE /\ log' = IF BackendManager(backend) # ""
                      THEN Append(log, Event("backend_run", BackendManager(backend)))
                      ELSE log
            /\ eval_results' = EmptyDict
            /\ pc' = "task_ret"
            /\ UNCHANGED exc
    /\ UNCHANGED <<arg, run_time, task_list, cur, k, batch_results, result,
                   rng_state, regVars, libVars>>

\* "if model is None or datasets is None"
MissingModelAndDatasets(cfg) == cfg.model = None /\ cfg.datasets = None
MissingModelOrDatasets(cfg) == cfg.model = None \/ cfg.datasets = None

\* native backend: the model/datasets check
Validate ==
    /\ pc = "backend"
    /\ IsNative(task_cfg.val)
    /\ IF MissingModelOrDatasets(task_cfg.val)
       THEN Raise(ModelDatasetsError)
       ELSE /\ pc' = "dump"
            /\ UNCHANGED exc
    /\ UNCHANGED <<arg, run_time, task_list, cur, k, eval_results, batch_results,
                   result, log, rng_state, regVars, libVars>>

\* a dump whose failing write leaves run_single_task as an exception
DumpOrRaise ==
    /\ pc = "dump"
    /\ \E written \in BOOLEAN :
          /\ log' = Append(log, Event("dump", IF written THEN "written" ELSE "warning"))
          /\ IF written
             THEN pc' = "loop" /\ UNCHANGED exc
             ELSE Raise(Exc("OSError", "Failed to dump overall task config"))
    /\ eval_results' = EmptyDict
    /\ k' = 0
    /\ UNCHANGED <<arg, run_time, task_list, cur, batch_results, result,
                   rng_state, regVars, libVars>>

\* "Dump overall task config": a failing write is logged and the run goes on
DumpConfig ==
    /\ pc = "dump"
    /\ \E written \in BOOLEAN :
          log' = Append(log, Event("dump", IF written THEN "written" ELSE "warning"))
    /\ eval_results' = EmptyDict
    /\ k' = 0
    /\ pc' = "loop"
    /\ UNCHANGED <<arg, run_time, task_list, cur, batch_results, result, exc,
                   rng_state, regVars, libVars>>

datasets == task_cfg.val.datasets.val
dataset_name == datasets[k]

\* "for dataset_name in datasets": import the benchmark module of the next one
ImportModule ==
    /\ pc = "loop"
    /\ k < Len(datasets)
    /\ k' = k + 1
    /\ log' = Append(log, [ev |-> "import", task |-> cur, ds |-> k + 1, what |-> datasets[k + 1]])
    /\ pc' = "check"
    /\ UNCHANGED <<arg, run_time, task_list, cur, eval_results, batch_results,
                   result, exc, rng_state, regVars, libVars>>

\* the loop is over: return eval_results
LoopEnd ==
    /\ pc = "loop"
    /\ k = Len(datasets)
    /\ pc' = "task_ret"
    /\ UNCHANGED <<arg, run_time, task_list, cur, k, eval_results, batch_results,
                   result, exc, log, rng_state, regVars, libVars>>

\* humaneval without dataset_args['humaneval']['local_path']
HumanevalPathMissing(cfg, name) ==
    /\ name = "humaneval"
    /\ Get(Get(cfg.dataset_args, "humaneval", EmptyDict), "local_path", None) = None

CheckLocalPath ==
    /\ pc = "check"
    /\ IF HumanevalPathMissing(task_cfg.val, dataset_name)
       THEN Raise(LocalPathError)
       ELSE /\ pc' = "model_adapter"
            /\ UNCHANGED exc
    /\ UNCHANGED <<arg, run_time, task_list, cur, k, eval_results, batch_results,
                   result, log, rng_state, regVars, libVars>>

\* the model adapter of one dataset: its class, "" when the model is refused
ModelAdapterCustomFirst(cfg) ==
    IF cfg.eval_type = CUSTOM
    THEN IF cfg.model.cls = "CustomModel" THEN "CustomModelAdapter" ELSE ""
    ELSE IF cfg.dry_run THEN "DummyChatModel" ELSE "ModelAdapterClass"
ModelAdapterFor(cfg) ==
    IF cfg.dry_run THEN "DummyChatModel"
    ELSE IF cfg.eval_type = CUSTOM
         THEN IF cfg.model.cls = "CustomModel" THEN "CustomModelAdapter" ELSE ""
         ELSE "ModelAdapterClass"

ModelAdapter ==
    /\ pc = "model_adapter"
    /\ IF ModelAdapterFor(task_cfg.val) = ""
       THEN /\ Raise(CustomModelError)
            /\ UNCHANGED log
       ELSE /\ log' = Append(log, Event("model_adapter", ModelAdapterFor(task_cfg.val)))
            /\ pc' = "evaluator"
            /\ UNCHANGED exc
    /\ UNCHANGED <<arg, run_time, task_list, cur, k, eval_results, batch_results,
                   result, rng_state, regVars, libVars>>

\* the evaluator of one dataset; the other datasets get a data adapter first
EvaluatorFor(name) == IF name = "humaneval" THEN "HumanevalEvaluator" ELSE "Evaluator"

BuildEvaluator ==
    /\ pc = "evaluator"
    /\ log' = log
              \o (IF dataset_name = "humaneval" THEN <<>>
                  ELSE <<Event("data_adapter", "DataAdapterClass")>>)
              \o <<Event("evaluator", EvaluatorFor(dataset_name))>>
    /\ pc' = "eval"
    /\ UNCHANGED <<arg, run_time, task_list, cur, k, eval_results, batch_results,
                   result, exc, rng_state, regVars, libVars>>

\* what evaluator.eval returns for the k-th dataset of the task
EvalResult(task, pos, name) == [task |-> task, pass |-> pos, name |-> name]

\* eval_results[dataset_name] = res_dict
StoreOnlyResult(results, name, res) == Put(EmptyDict, name, res)
StoreResult(results, name, res) == Put(results, name, res)

\* res_dict = evaluator.eval(...), stored under the dataset's name.  An
\* Evaluator runs inference on the subsets it finds no result file of, in the
\* order of its subset list, and writes a result file for each of them.
Eval ==
    /\ pc = "eval"
    /\ log' = Append(log, Event("eval", dataset_name))
    /\ eval_results' = StoreResult(eval_results, dataset_name, EvalResult(cur, k, dataset_name))
    /\ pc' = "loop"
    /\ prompt_log' = prompt_log \o EvalPrompts(Examples, rng_state, cur, k).calls
    /\ rng_state' = EvalPrompts(Examples, rng_state, cur, k).rng
    /\ IF dataset_name = "humaneval"
       THEN UNCHANGED <<result_files, inferred>>
       ELSE LET cfg == task_cfg.val
                subsets == in_subset_list(cfg, dataset_name).val
                done == Completed(result_files, cfg.use_cache, cfg.work_dir, dataset_name)
                todo == SelectSeq(subsets, LAMBDA subset : subset \notin done)
                File(i) == [dir |-> cfg.work_dir, name |-> dataset_name, subset |-> todo[i]]
            IN  /\ inferred' = inferred \o [i \in DOMAIN todo |->
                                               [task |-> cur, ds |-> k, file |-> File(i)]]
                /\ result_files' =
                      {f \in result_files :
                          \A i \in DOMAIN todo :
                             [dir |-> f.dir, name |-> f.name, subset |-> f.subset] # File(i)}
                      \cup {[dir |-> File(i).dir, name |-> File(i).name,
                              subset |-> File(i).subset, run |-> 1] : i \in DOMAIN todo}
    /\ UNCHANGED <<arg, run_time, task_list, cur, k, batch_results, result, exc,
                   regVars, parseVars, input_d, gold, utilVars>>

-----------------------------------------------------------------------------

\* a call of run_task, with any task specification, at any time
Call ==
    /\ pc = "idle"
    /\ \E spec \in TaskSpecs, now \in RunTimes : RunTask(spec, now)

Next ==
    \/ Call
    \/ BatchLoop
    \/ SetUp
    \/ Dispatch
    \/ Validate
    \/ DumpConfig
    \/ ImportModule
    \/ LoopEnd
    \/ CheckLocalPath
    \/ ModelAdapter
    \/ BuildEvaluator
    \/ Eval
    \/ TaskReturn

Spec == Init /\ [][Next]_vars

-----------------------------------------------------------------------------
(* TaskConfig.registry and TaskConfig.load *)

RegistryNames == {"arc_swift", "arc"}
DataPatterns == {"arc", "arc_swift", "unknown_task"}
DatasetDirs == {None, Str("/path/to/swift_custom_work")}
SubsetLists == {None, List(<<"ARC-Easy">>)}
CustomModels == {CustomModelObj, [cls |-> "CustomModel", val |-> "OtherModel"]}
LoadTasks == {<<"arc">>, <<"arc_swift">>, <<"arc", "arc_swift">>, <<"unknown_task", "arc">>}

\* dict.update with a one-entry dict; None is "argument not given"
UpdateIfGiven(d, key, v) == IF v # None THEN Put(d, key, v) ELSE d

\* the config registry() builds from the base entry
CustomConfig(pattern_config, data_pattern, dataset_dir, subset_list) ==
    [pattern_config EXCEPT
        !.val.datasets = List(<<data_pattern>>),
        !.val.dataset_args =
            Put(EmptyDict, data_pattern,
                UpdateIfGiven(UpdateIfGiven(EmptyDict, "local_path", dataset_dir),
                              "subset_list", subset_list)),
        !.val.eval_type = CHECKPOINT]

\* id() of an object allocated now: unlike that of every object of the registry
NewId(registry) ==
    1 + (CHOOSE m \in {registry[n].id : n \in DOMAIN registry} :
            \A n \in DOMAIN registry : registry[n].id <= m)

\* copy.deepcopy(obj): a new object holding the same values
SameObject(obj, registry) == obj
deepcopy(obj, registry) == [obj EXCEPT !.id = NewId(registry)]

\* attribute assignments to an object show through every key bound to it
SetAttrs(registry, obj) ==
    [n \in DOMAIN registry |-> IF registry[n].id = obj.id THEN obj ELSE registry[n]]

\* the key order of a dict after dict.update({key: ...})
KeysAppended(keys, key) == Append(keys, key)
KeysAfterUpdate(keys, key) ==
    IF \E i \in DOMAIN keys : keys[i] = key THEN keys ELSE Append(keys, key)

\* TaskConfig.list()
list(keys) == List(keys)

\* TaskConfig.registry: the registry it leaves, and whether it raised
RegistryWithoutReturn(registry, name, data_pattern, dataset_dir, subset_list) ==
    IF data_pattern \notin DOMAIN registry
    THEN [registry |-> registry, raised |-> TRUE, logged |-> "error"]
    ELSE LET custom_config == CustomConfig(deepcopy(registry[data_pattern], registry),
                                           data_pattern, dataset_dir, subset_list)
         IN [registry |-> Put(SetAttrs(registry, custom_config), name, custom_config),
             raised |-> FALSE, logged |-> "info"]
RegistryResult(registry, name, data_pattern, dataset_dir, subset_list) ==
    IF data_pattern \notin DOMAIN registry
    THEN [registry |-> registry, raised |-> FALSE, logged |-> "error"]
    ELSE LET custom_config == CustomConfig(deepcopy(registry[data_pattern], registry),
                                           data_pattern, dataset_dir, subset_list)
         IN [registry |-> Put(SetAttrs(registry, custom_config), name, custom_config),
             raised |-> FALSE, logged |-> "info"]

Registry(name, data_pattern, dataset_dir, subset_list) ==
    /\ reg_calls < MaxCalls
    /\ LET r == RegistryResult(registry_tasks, name, data_pattern, dataset_dir, subset_list) IN
       /\ registry_tasks' = r.registry
       /\ registry_keys' = (IF r.logged = "info"
                            THEN KeysAfterUpdate(registry_keys, name)
                            ELSE registry_keys)
       /\ reg_call' = [op |-> "registry", name |-> name, data_pattern |-> data_pattern,
                       dataset_dir |-> dataset_dir, subset_list |-> subset_list,
                       raised |-> r.raised, logged |-> r.logged]
    /\ reg_before' = registry_tasks
    /\ reg_calls' = reg_calls + 1
    /\ UNCHANGED <<runVars, libVars>>

\* TaskConfig.load: task.model = custom_model on every entry found; the list
\* returned holds the registry's own entries, here by name
RECURSIVE LoadResult(_, _, _)
LoadResult(registry, custom_model, names) ==
    IF names = <<>> THEN [registry |-> registry, res_list |-> <<>>]
    ELSE IF names[1] \notin DOMAIN registry
         THEN LoadResult(registry, custom_model, Tail(names))
         ELSE LET task == [registry[names[1]] EXCEPT !.val.model = custom_model]
                  rest == LoadResult(SetAttrs(registry, task), custom_model, Tail(names))
              IN [registry |-> rest.registry, res_list |-> <<names[1]>> \o rest.res_list]

Load(custom_model, names) ==
    /\ reg_calls < MaxCalls
    /\ LET r == LoadResult(registry_tasks, custom_model, names) IN
       /\ registry_tasks' = r.registry
       /\ reg_call' = [op |-> "load", custom_model |-> custom_model, tasks |-> names,
                       res_list |-> r.res_list]
    /\ reg_before' = registry_tasks
    /\ reg_calls' = reg_calls + 1
    /\ UNCHANGED <<runVars, registry_keys, libVars>>

NextRegistry ==
    \/ \E name \in RegistryNames, data_pattern \in DataPatterns,
          dataset_dir \in DatasetDirs, subset_list \in SubsetLists :
          Registry(name, data_pattern, dataset_dir, subset_list)
    \/ \E custom_model \in CustomModels, names \in LoadTasks : Load(custom_model, names)

SpecRegistry == Init /\ [][NextRegistry]_vars

-----------------------------------------------------------------------------
(* ResponseParser.parse_first_option_with_choices *)

\* [{options_concat}]: the options joined by "|", inside a character class
OnlyFirstOption(opts) == [neg |-> FALSE, set |-> {opts[1]}]
OptionClass(opts) ==
    [neg |-> FALSE,
     set |-> {opts[i] : i \in DOMAIN opts} \cup (IF Len(opts) > 1 THEN {"|"} ELSE {})]

\* the ladder; the ninth entry is two adjacent literals of the source, which
\* Python joins into one pattern
patterns(opts) ==
    LET In(set) == [neg |-> FALSE, set |-> set]
        Not(set) == [neg |-> TRUE, set |-> set]
        Whitespace == {" ", "\n", "\t"}
        Space == In(Whitespace)                                       \* \s
        NonSpace == Not(Whitespace)                                   \* \S
        Dot == Not({"\n"})                                            \* .
        One(cls) == [kind |-> "one", cls |-> cls, alts |-> <<>>]      \* x
        Opt(cls) == [kind |-> "opt", cls |-> cls, alts |-> <<>>]      \* x?
        Star(cls) == [kind |-> "star", cls |-> cls, alts |-> <<>>]    \* x*
        Lazy(cls) == [kind |-> "lazy", cls |-> cls, alts |-> <<>>]    \* x*?
        Bol == [kind |-> "bol", cls |-> In({}), alts |-> <<>>]        \* ^
        Eol == [kind |-> "eol", cls |-> In({}), alts |-> <<>>]        \* $
        Alt(a, b) == [kind |-> "alt", cls |-> In({}), alts |-> <<a, b>>]   \* (a|b)
        Lit(chars) == [i \in DOMAIN chars |-> One(In({chars[i]}))]
        O == One(OptionClass(opts))
        S == Opt(Space)
        End == <<Opt(In({".", "fullstop", "$"})), Eol>>          \* [.。$]?$
        Stop == <<Opt(In({"fullstop", "."})), Eol>>              \* [。\.]?$
        Word == <<One(NonSpace), Star(NonSpace),
                  Alt(One(In({"fullstop"})), Eol)>>              \* (\S+)(?:。|$)
        Sep == One(In(Whitespace \cup {"fullcomma", "fullcolon", ":", ","}))
        OnlyItem == Lit(<<"zhi", "you">>) \o <<Opt(In({"xuan"})), Opt(In({"xiang"})), S, O, S>>
        Statement(what) ==
            Lit(<<"shuo", "fa">>) \o what
                \o <<Opt(In({"xuan"})), Opt(In({"xiang"})), Opt(In({"de"}))>>
                \o Lit(<<"shi">>) \o <<S, O>>
        The(phrase) == <<One(In({"T", "t"}))>> \o Lit(phrase)
        SpaceOrBol == Alt(One(Space), Bol)
    IN <<Lit(<<"da", "an">>) \o <<Opt(In({"shi"})), S, O>>,
         Lit(<<"da", "an">>) \o <<Opt(In({"shi"})), S>> \o Lit(<<"fullcolon">>) \o <<O>>,
         Lit(<<"da", "an">>) \o <<Opt(In({"shi"})), S>> \o Lit(<<":">>) \o <<O>>,
         Lit(<<"da", "an", "ying">>) \o <<Opt(In({"gai"}))>> \o Lit(<<"shi">>) \o <<S, O>>,
         Lit(<<"da", "an", "ying">>) \o <<Opt(In({"gai"}))>> \o Lit(<<"xuan">>) \o <<S, O>>,
         Lit(<<"da", "an", "wei">>) \o <<S, O>>,
         Lit(<<"da", "an", "xuan">>) \o <<S, O>>,
         Lit(<<"xuan">>) \o <<Opt(In({"ze"})), S, O>>,
         Lit(<<"gu">>) \o <<Opt(In({"xuan"})), S, O>>
             \o OnlyItem \o <<Opt(In({"shi"}))>> \o Lit(<<"dui">>),
         OnlyItem \o <<Opt(In({"shi"}))>> \o Lit(<<"cuo">>),
         OnlyItem \o <<Opt(In({"bu"}))>> \o Lit(<<"zheng", "que">>),
         OnlyItem \o Lit(<<"cuo", "wu">>),
         Statement(<<Opt(In({"bu"}))>> \o Lit(<<"dui">>)),
         Statement(<<Opt(In({"bu"}))>> \o Lit(<<"zheng", "que">>)),
         Statement(Lit(<<"cuo", "wu">>)),
         <<O, S>> \o Lit(<<"shi", "zheng", "que", "de">>),
         <<O, S>> \o Lit(<<"shi", "zheng", "que", "da", "an">>),
         Lit(<<"xuan", "xiang">>) \o <<S, O, S>> \o Lit(<<"zheng", "que">>),
         Lit(<<"suo", "yi", "da">>) \o <<S, O>>,
         Lit(<<"1">>) \o <<One(Dot), S, O>> \o End,
         Lit(<<"suo", "yi">>) \o <<S, O>> \o End,
         Lit(<<"suo", "you">>) \o <<S, O>> \o End,
         <<Sep, O, Opt(In({"fullstop", "fullcomma", ",", "."})), Eol>>,
         <<Sep, One(In({"gu", "ji"})), O>> \o Stop,
         <<Sep>> \o Lit(<<"yin", "ci">>) \o <<O>> \o Stop,
         <<One(In({"shi", "wei", "fullstop"})), S, O>> \o Stop,
         Lit(<<"yin", "ci">>) \o <<S, O>> \o Stop,
         Lit(<<"xian", "ran">>) \o <<S, O>> \o Stop,
         Lit(<<"da", "an", "shi">>) \o <<S>> \o Word,
         Lit(<<"da", "an", "ying", "gai", "shi">>) \o <<S>> \o Word,
         Lit(<<"da", "an", "wei">>) \o <<S>> \o Word,
         Lit(<<"da", "an", "shi">>) \o <<Lazy(Dot), O>>,
         Lit(<<"da", "an", "wei">>) \o <<Lazy(Dot), O>>,
         Lit(<<"gu_firm", "xuan">>) \o <<Lazy(Dot), O>>,
         Lit(<<"da", "an", "ying", "gai", "shi">>) \o <<Lazy(Dot), O>>,
         The(<<"h", "e", " ", "a", "n", "s", "w", "e", "r", " ", "i", "s", " ">>) \o <<O>>,
         The(<<"h", "e", " ", "c", "o", "r", "r", "e", "c", "t", " ",
               "a", "n", "s", "w", "e", "r", " ", "i", "s", " ">>) \o <<O>>,
         The(<<"h", "e", " ", "c", "o", "r", "r", "e", "c", "t", " ",
               "a", "n", "s", "w", "e", "r", " ", "i", "s", ":", "\n">>) \o <<O>>,
         <<SpaceOrBol, O, One(In(Whitespace \cup {"fullstop", "fullcomma", ",", ".", "$"}))>>,
         <<O>>,
         <<Bol>> \o Lit(<<"xuan", "xiang">>) \o <<S, O>>,
         <<Bol, O, S, Opt(In({"xuan"}))>> \o Lit(<<"xiang">>),
         <<SpaceOrBol, O,
           One(In(Whitespace \cup {"fullstop", "fullcomma", ",", "fullcolon", ":", ".", "$"}))>>,
         <<SpaceOrBol, O, Alt(One(Space), Eol)>>,
         Lit(<<"1">>) \o <<One(Dot), S, Lazy(Dot), Eol>>>>

\* the loop over the options ran out
NoOption == "no option in outputs"

\* for i in options: if i in outputs: return i
RECURSIVE FirstIn(_, _)
FirstIn(opts, outputs) ==
    IF opts = <<>> THEN NoOption
    ELSE IF \E j \in DOMAIN outputs : outputs[j] = Head(opts) THEN Head(opts)
    ELSE FirstIn(Tail(opts), outputs)

\* for regex in regexes: a match whose group(0) holds an option returns it,
\* any other match goes on to the next regex
RECURSIVE FirstMatchOnly(_, _, _)
FirstMatchOnly(regexes, txt, opts) ==
    IF regexes = <<>> THEN ""
    ELSE LET match == search(Head(regexes), txt) IN
         IF match.found
         THEN IF FirstIn(opts, match.group0) # NoOption
              THEN FirstIn(opts, match.group0) ELSE ""
         ELSE FirstMatchOnly(Tail(regexes), txt, opts)
RECURSIVE ParseWith(_, _, _)
ParseWith(regexes, txt, opts) ==
    IF regexes = <<>> THEN ""
    ELSE LET match == search(Head(regexes), txt) IN
         IF match.found /\ FirstIn(opts, match.group0) # NoOption
         THEN FirstIn(opts, match.group0)
         ELSE ParseWith(Tail(regexes), txt, opts)

parse_first_option_with_choices(txt, opts) == ParseWith(patterns(opts), txt, opts)

\* the texts parsed: up to MaxTokens pieces, one after another
Tokens ==
    {<<"da", "an", "shi">>,
     <<"T", "h", "e", " ", "c", "o", "r", "r", "e", "c", "t", " ",
       "a", "n", "s", "w", "e", "r", " ", "i", "s", " ">>,
     <<"B">>, <<"C">>, <<"x">>, <<"|">>, <<".">>, <<"fullstop">>}

RECURSIVE Concat(_)
Concat(pieces) == IF pieces = <<>> THEN <<>> ELSE Head(pieces) \o Concat(Tail(pieces))

Texts == {Concat(pieces) : pieces \in UNION {[1..n -> Tokens] : n \in 0..MaxTokens}}

InitParser ==
    /\ InitProgram
    /\ result_files = {}
    /\ NoPrompts
    /\ Unused
    /\ text \in Texts
    /\ options \in {choices, <<"D", "C", "B", "A">>}  \* GPQAAdapter.choices, and in another order
    /\ parsed = None

ParseFirstOption ==
    /\ parsed = None
    /\ parsed' = Str(parse_first_option_with_choices(text, options))
    /\ UNCHANGED <<text, options, runVars, regVars, gpqaVars, utilVars, result_files, inferred>>

SpecParser == InitParser /\ [][ParseFirstOption]_vars

-----------------------------------------------------------------------------
(* GPQAAdapter.gen_prompt, called on a record again and again *)

RawAnswers ==
    {None, Str(<<"4">>), Str(<<" ", "4">>), Str(<<"4", "[", "1", "]">>), Str(<<"5">>),
     Str(<<"a", " ", "[", "t", "i", "t", "l", "e", "]", "b", " ", " ", "c", "\n">>)}

Records ==
    {Record(incorrect1, Str(<<"5">>), incorrect3, correct) :
        incorrect1 \in RawAnswers, incorrect3 \in {None, Str(<<"6">>)}, correct \in RawAnswers}

InitGpqa ==
    /\ InitProgram
    /\ result_files = {}
    /\ NothingParsed
    /\ Unused
    /\ input_d \in Records
    /\ prompt_log = <<>>
    /\ gold = None

\* seed_everything, once, before the first prompt
SeedEverything(seed) ==
    /\ rng_state = Unseeded
    /\ prompt_log = <<>>
    /\ rng_state' = seed_everything(rng_state, seed)
    /\ UNCHANGED <<ctlVars, regVars, parseVars, gpqaVars, utilVars, result_files, inferred>>

GenPrompt ==
    /\ Len(prompt_log) < MaxPrompts
    /\ input_d' = gen_prompt(input_d, rng_state).input_d
    /\ rng_state' = gen_prompt(input_d, rng_state).rng
    /\ prompt_log' = Append(prompt_log, PromptCall(0, 0, input_d, rng_state))
    /\ UNCHANGED <<gold, ctlVars, regVars, parseVars, utilVars, result_files, inferred>>

\* get_gold_answer on the record, as the gen_prompt calls so far have left it
GetGoldAnswer ==
    /\ gold' = [ok |-> get_gold_answer(input_d).ok, val |-> get_gold_answer(input_d).val,
                calls |-> Len(prompt_log)]
    /\ UNCHANGED <<input_d, prompt_log, runVars, regVars, parseVars, utilVars,
                   result_files, inferred>>

NextGpqa ==
    \/ \E seed \in 1..RngStates : SeedEverything(seed)
    \/ GenPrompt
    \/ GetGoldAnswer

SpecGpqa == InitGpqa /\ [][NextGpqa]_vars

-----------------------------------------------------------------------------
(* normalize_score of utils/utils.py                                       *)
(*                                                                         *)
(* A float is a binary fraction, and round() gives the float nearest to a  *)
(* decimal one.  Both are counted here in units of                         *)
(* 1 / (2^MaxBits * 10^keep_num), which holds every float with MaxBits     *)
(* binary digits after the point and every decimal with keep_num digits    *)
(* exactly: the number 1/32 is a float, and it is as far from 0.0312 as    *)
(* from 0.0313.                                                            *)

RECURSIVE Power(_, _)
Power(b, n) == IF n = 0 THEN 1 ELSE b * Power(b, n - 1)

\* the units in 1 / 10^keep_num
Binary == Power(2, MaxBits)

\* the float m / 2^MaxBits
Float(m) == [cls |-> "float", val |-> m * Power(10, keep_num)]

\* the float nearest to d / 10^keep_num
Decimal(d) == [cls |-> "float", val |-> d * Binary]

\* round half up: the larger neighbour when the two are equally near
HalfUp(number, ndigits) ==
    IF number.cls = "int" THEN number
    ELSE LET step == Binary * Power(10, keep_num - ndigits)
         IN  [number EXCEPT !.val = ((2 * number.val + step) \div (2 * step)) * step]

\* Python's round(number, ndigits), ndigits <= keep_num: an int is returned as
\* it is; a float goes to the nearest multiple of 10^-ndigits, and to the even
\* one when the two neighbours are equally near
round(number, ndigits) ==
    IF number.cls = "int" THEN number
    ELSE LET step == Binary * Power(10, keep_num - ndigits)
             q == number.val \div step
             r == number.val % step
             nearest == IF 2 * r > step \/ (2 * r = step /\ q % 2 = 1) THEN q + 1 ELSE q
         IN  [number EXCEPT !.val = nearest * step]

\* normalize_score(score, n): the value returned and the warning logged
normalize_score(s, n) ==
    IF s.cls = "float" THEN [score |-> round(s, n), warning |-> ""]
    ELSE IF s.cls = "dict"
    THEN [score |-> Dict([key \in DOMAIN s.val |-> round(s.val[key], n)]),
          warning |-> ""]
    ELSE [score |-> s, warning |-> "Unknown score type"]

\* the scores normalize_score is called with: every float between 0 and 1 and
\* 0.123456789 to the format's precision; the metric mappings with the values
\* 1/32 and 3/32 (both halfway between two 4-digit values), 1/8, 63/64 and the
\* int 1; two ints and a str
Scores ==
    LET MetricValues ==
            {Float(Binary \div 32), Float(3 * (Binary \div 32)), Float(Binary \div 8),
             Float(Binary - 1), [cls |-> "int", val |-> 1]}
    IN  {Float(m) : m \in 0..Binary}
        \cup {[cls |-> "float", val |-> (123457 * Binary) \div 100]}
        \cup {Dict(d) : d \in UNION {[names -> MetricValues] : names \in SUBSET {"acc", "f1"}}}
        \cup {[cls |-> "int", val |-> 0], [cls |-> "int", val |-> 1], Str(<<"1">>)}

InitScore ==
    /\ InitProgram
    /\ result_files = {}
    /\ NothingParsed
    /\ NoPrompts
    /\ score \in Scores
    /\ normalized = None
    /\ config = None
    /\ restored = None

\* score = normalize_score(score), on the score given and then on what the
\* call before returned, as long as that changes anything
NormalizeScore ==
    /\ normalized # None => score # normalized.score
    /\ score' = IF normalized = None THEN score ELSE normalized.score
    /\ normalized' = normalize_score(score', keep_num)
    /\ UNCHANGED <<config, restored, runVars, regVars, parseVars, gpqaVars,
                   result_files, inferred>>

SpecScore == InitScore /\ [][NormalizeScore]_vars

-----------------------------------------------------------------------------
(* TaskConfig.to_dict, update and from_dict of config.py                   *)

\* to_dict returns the object's __dict__ itself
to_dict(cfg) == cfg.val

\* update puts every entry of the mapping into __dict__, whatever its key
update(cfg, other) ==
    LET d == IF other.cls = "TaskConfig" THEN to_dict(other) ELSE other.val
    IN  [cfg EXCEPT !.val = [key \in DOMAIN cfg.val \cup DOMAIN d |->
                                IF key \in DOMAIN d THEN d[key] ELSE cfg.val[key]]]

from_dict(d) == TaskConfigInit(d)

\* two model objects that differ in nothing but their identity
ModelObjects == {Object(CustomModelObj, id) : id \in 1..2}

\* what update is called with: mappings of fields, a mapping with a key that
\* is no field, and a TaskConfig
Others ==
    {Dict([seed |-> 7]), Dict([dry_run |-> TRUE, work_dir |-> Str(<<"wd">>)]),
     Dict([datasets |-> List(<<"arc", "humaneval">>), dataset_args |-> HumanevalPath]),
     Dict([bogus |-> 1]), Dict(EmptyDict),
     Cfg([use_cache |-> Str(<<"cache">>)])}
    \cup {Dict([model |-> m]) : m \in ModelObjects}

\* a TaskConfig constructed with some keyword arguments
InitConfig ==
    /\ InitProgram
    /\ result_files = {}
    /\ NothingParsed
    /\ NoPrompts
    /\ score = None
    /\ normalized = None
    /\ \E d \in {EmptyDict, [datasets |-> List(<<"arc">>)]}
                \cup {[model |-> m, datasets |-> List(<<"arc">>)] :
                         m \in {StrModel} \cup ModelObjects} :
          config = TaskConfigInit(d).obj
    /\ restored = None

\* config.update(other)
Update(other) ==
    /\ restored = None
    /\ config' = update(config, other)
    /\ UNCHANGED <<score, normalized, restored, runVars, regVars, parseVars, gpqaVars,
                   result_files, inferred>>

\* TaskConfig.from_dict(config.to_dict())
RoundTrip ==
    /\ restored = None
    /\ restored' = from_dict(to_dict(config))
    /\ UNCHANGED <<score, normalized, config, runVars, regVars, parseVars, gpqaVars,
                   result_files, inferred>>

NextConfig ==
    \/ \E other \in Others : Update(other)
    \/ RoundTrip

SpecConfig == InitConfig /\ [][NextConfig]_vars

-----------------------------------------------------------------------------
(* What the properties below read off a state *)

\* the calls of one task, as indices of the log
EventsOf(t) == {i \in DOMAIN log : log[i].task = t}
\* the calls of one task that belong to the native pipeline or to a backend
RunsSomething(t) ==
    \E i \in EventsOf(t) : log[i].ev \in {"model_adapter", "eval", "backend_run"}
NativeEvents == {"import", "model_adapter", "data_adapter", "evaluator", "eval", "dump"}
RunsNative(t) == \E i \in EventsOf(t) : log[i].ev \in NativeEvents

\* the running task is a TaskConfig that run_single_task has been entered with
InTask == cur \in DOMAIN task_list /\ task_cfg.cls = "TaskConfig"
\* run_single_task has got past its backend and model/datasets checks
PastChecks == InTask /\ pc \notin {"call", "backend"}

-----------------------------------------------------------------------------
(* C1 (as stated): a TaskConfig without model or without datasets makes    *)
(* run_task raise a configuration error, whatever its eval_backend, before *)
(* any model adapter, evaluator.eval call or backend run.                  *)
C1_RaisesForAnyBackend ==
    (PastChecks /\ (task_cfg.val.model = None \/ task_cfg.val.datasets = None))
        => /\ pc = "raised"
           /\ exc = ModelDatasetsError
           /\ ~RunsSomething(cur)

(* C1 (amended): with the native eval_backend, a TaskConfig without model  *)
(* or without datasets makes run_task raise the ValueError "Please provide *)
(* model and datasets" before any model adapter is constructed and before  *)
(* any evaluator.eval call, whatever dry_run and eval_type are.            *)
C1_NativeRaisesBeforeAnyRun ==
    (PastChecks /\ task_cfg.val.eval_backend = NATIVE
        /\ (task_cfg.val.model = None \/ task_cfg.val.datasets = None))
        => /\ pc = "raised"
           /\ exc = ModelDatasetsError
           /\ ~RunsNative(cur)

C1_Witness ==
    /\ PastChecks
    /\ task_cfg.val.eval_backend = NATIVE
    /\ task_cfg.val.model # None
    /\ task_cfg.val.datasets = None
    /\ task_cfg.val.dry_run
    /\ task_cfg.val.eval_type = CUSTOM
    /\ pc = "raised"

-----------------------------------------------------------------------------
(* C2: a humaneval dataset without local path, at any position of the      *)
(* datasets list, is reported before any inference starts: when the error  *)
(* is raised, no evaluator.eval call of that task has been made.           *)
C2_NoEvalBeforeLocalPathError ==
    (pc = "raised" /\ exc = LocalPathError)
        => ~\E i \in EventsOf(cur) : log[i].ev = "eval"

-----------------------------------------------------------------------------
(* C3 (as stated): with any eval_backend other than the native one,        *)
(* run_single_task returns an empty mapping and nothing of the native      *)
(* pipeline runs.                                                          *)
C3_NonNativeReturnsEmpty ==
    (PastChecks /\ task_cfg.val.eval_backend # NATIVE)
        => /\ pc # "raised"
           /\ eval_results = EmptyDict
           /\ ~RunsNative(cur)

(* C3 (amended): with any eval_backend other than the native one nothing   *)
(* of the native pipeline runs (no benchmark import, no model or data      *)
(* adapter, no evaluator); run_single_task raises NotImplementedError for  *)
(* the third-party backend and returns an empty mapping for every other    *)
(* one, once the backend manager's run has returned.                       *)
C3_NonNativeSkipsPipeline ==
    (PastChecks /\ task_cfg.val.eval_backend # NATIVE)
        => /\ ~RunsNative(cur)
           /\ IF task_cfg.val.eval_backend = THIRD_PARTY
              THEN pc = "raised" /\ exc = ThirdPartyError
              ELSE /\ pc \in {"task_ret", "batch_loop", "done"}
                   /\ eval_results = EmptyDict
                   /\ (pc = "done" /\ ~IsBatch => result = Dict(EmptyDict))
                   /\ (pc = "batch_loop" => batch_results[cur] = EmptyDict)

C3_Witness ==
    /\ pc = "done"
    /\ ~IsBatch
    /\ InTask
    /\ task_cfg.val.eval_backend = RAG_EVAL
    /\ task_cfg.val.model # None
    /\ task_cfg.val.datasets # None
    /\ \E i \in EventsOf(cur) : log[i].ev = "backend_run"
    /\ result = Dict(EmptyDict)

-----------------------------------------------------------------------------
(* C4: a batch runs its tasks one after another in list order, and the     *)
(* list it returns when all of them complete has one element per task,     *)
(* element i being the result of task i.                                   *)

\* the position of the last occurrence of a name in a datasets list
LastPos(ds, name) ==
    CHOOSE p \in DOMAIN ds : ds[p] = name /\ \A q \in DOMAIN ds : ds[q] = name => q <= p
\* the mapping a completed task i has to return for the config it was given
ExpectedResult(i, cfg) ==
    IF cfg.eval_backend # NATIVE THEN EmptyDict
    ELSE [n \in {cfg.datasets.val[p] : p \in DOMAIN cfg.datasets.val} |->
             [task |-> i, pass |-> LastPos(cfg.datasets.val, n), name |-> n]]

C4_BatchInOrder ==
    IsBatch =>
        /\ \A i, j \in DOMAIN log : i < j => log[i].task <= log[j].task
        /\ \A i \in DOMAIN log : log[i].task \in 1..cur
        /\ \A t \in 1..Len(batch_results) :
              \E i \in EventsOf(t) : log[i].ev = "seed"
        /\ pc = "done" =>
              /\ result.cls = "list"
              /\ Len(result.val) = Len(arg.val)
              /\ \A i \in DOMAIN arg.val :
                    result.val[i] = ExpectedResult(i, arg.val[i].val)

C4_Witness ==
    /\ IsBatch
    /\ pc = "done"
    /\ Len(result.val) = 2
    /\ DOMAIN result.val[1] = {"arc", "humaneval"}
    /\ DOMAIN result.val[2] = {"arc"}
    /\ result.val[1]["arc"].task = 1
    /\ result.val[2]["arc"].task = 2

-----------------------------------------------------------------------------
(* C5 (as stated): only a fatal configuration error (missing model or      *)
(* datasets, unsupported file format, missing required local path) leaves  *)
(* run_task in batch mode; any other failure of a task is absorbed.        *)
C5_OnlyConfigErrorsLeaveBatch ==
    (IsBatch /\ exc # NoExc)
        => exc \in {ModelDatasetsError, UnsupportedFormatError, LocalPathError}

(* C5 (amended): run_task catches nothing in batch mode: any exception a   *)
(* task raises, a configuration error or not (the NotImplementedError of   *)
(* the third-party backend, for one), leaves run_task at once; no later    *)
(* task of the list is run and no result list is returned.                 *)
C5_AnyFailureAbortsBatch ==
    (IsBatch /\ exc # NoExc)
        => /\ pc = "raised"
           /\ result = None
           /\ Len(batch_results) = cur - 1
           /\ \A i \in DOMAIN log : log[i].task <= cur

C5_Witness ==
    /\ IsBatch
    /\ pc = "raised"
    /\ exc = ThirdPartyError
    /\ cur = 1
    /\ Len(task_list) = 2
    /\ task_list[2].cls = "TaskConfig"
    /\ ~MissingModelOrDatasets(task_list[2].val)

-----------------------------------------------------------------------------
(* C6 (as stated): every element of a batch list that is a mapping or a    *)
(* file path is normalized to a TaskConfig as it would be when passed to   *)
(* run_task alone, and then run.                                           *)
C6_BatchElementsNormalized ==
    (IsBatch /\ cur \in DOMAIN task_list /\ pc # "call" /\ Normalize(arg.val[cur]).ok)
        => /\ task_cfg.cls = "TaskConfig"
           /\ exc # SeedAttributeError

\* TaskConfig(**mapping), spelled out
ConfigOfMapping(m) ==
    [cls |-> "TaskConfig",
     val |-> [f \in DOMAIN DefaultFields |-> IF f \in DOMAIN m THEN m[f] ELSE DefaultFields[f]]]

(* C6 (amended): a mapping or a YAML/JSON file path passed to run_task on  *)
(* its own is normalized to a TaskConfig (of the mapping, resp. of the     *)
(* mapping the file holds) before the run.  The elements of a batch list   *)
(* are not normalized: each is handed to run_single_task as it is, no file *)
(* is read, and an element that is not a TaskConfig raises AttributeError  *)
(* at its turn, before anything of it runs.                                *)
C6_OnlySingleSpecsNormalized ==
    /\ (~IsBatch /\ arg.cls \in {"dict", "str"} /\ pc = "call")
          => task_list = <<ConfigOfMapping(IF arg.cls = "dict" THEN arg.val ELSE Files[arg.val])>>
    /\ (~IsBatch /\ cur \in DOMAIN task_list) => task_cfg.cls = "TaskConfig"
    /\ IsBatch =>
          /\ Len(task_list) = Len(arg.val)
          /\ \A i \in DOMAIN log : log[i].ev # "read_file"
          /\ \A t \in DOMAIN task_list : task_list[t].cls = arg.val[t].cls
          /\ (cur \in DOMAIN task_list /\ task_cfg.cls # "TaskConfig" /\ pc # "call")
                => /\ pc = "raised"
                   /\ exc = SeedAttributeError
                   /\ EventsOf(cur) = {}

C6_Witness ==
    /\ IsBatch
    /\ pc = "raised"
    /\ exc = SeedAttributeError
    /\ cur = 2
    /\ arg.val[2].cls = "dict"
    /\ Normalize(arg.val[2]).ok
    /\ Len(batch_results) = 1

-----------------------------------------------------------------------------
(* C7: a string task specification that ends neither in .yaml nor in .json *)
(* makes run_task raise "Unsupported file format", and a specification     *)
(* that is no TaskConfig, mapping, string or list makes it raise a         *)
(* configuration error, in both cases before a file is read, the random    *)
(* generator seeded, a work directory set or a task run.                   *)
NothingDone ==
    /\ log = <<>>
    /\ rng_state = Unseeded
    /\ task_list = <<>>
    /\ eval_results = EmptyDict
    /\ batch_results = <<>>
    /\ result = None

C7_BadSpecRaisesFirst ==
    /\ (pc # "idle" /\ arg.cls = "str"
          /\ ~EndsWith(arg.val, <<".", "y", "a", "m", "l">>)
          /\ ~EndsWith(arg.val, <<".", "j", "s", "o", "n">>))
          => pc = "raised" /\ exc = UnsupportedFormatError /\ NothingDone
    /\ (pc # "idle" /\ arg.cls \notin {"TaskConfig", "dict", "str", "list"})
          => pc = "raised" /\ exc = InvalidConfigError /\ NothingDone

C7_Witness ==
    /\ pc = "raised"
    /\ arg = Str(YmlPath)
    /\ exc = UnsupportedFormatError
    /\ NothingDone

-----------------------------------------------------------------------------
(* C8: in native mode the datasets are evaluated one at a time in the      *)
(* order of task_cfg.datasets: the evaluator.eval of dataset k has         *)
(* returned before anything of dataset k+1 is imported or constructed; and *)
(* when the run completes the returned mapping has exactly one entry per   *)
(* dataset name of task_cfg.datasets, holding the result of an Evaluator   *)
(* pass of that dataset.                                                   *)
EvalsOf(t) == {i \in EventsOf(t) : log[i].ev = "eval"}

C8_DatasetsInOrder ==
    /\ \A t \in DOMAIN task_list :
          /\ \A i, j \in EventsOf(t) : i < j => log[i].ds <= log[j].ds
          /\ \A j \in EventsOf(t) :
                (log[j].ev \in {"import", "model_adapter", "data_adapter", "evaluator"}
                    /\ log[j].ds > 1)
                    => \E i \in EvalsOf(t) : i < j /\ log[i].ds = log[j].ds - 1
          /\ \A i \in EvalsOf(t) :
                log[i].what = task_list[t].val.datasets.val[log[i].ds]
    /\ (InTask /\ task_cfg.val.eval_backend = NATIVE /\ pc \in {"task_ret", "done"})
          => LET ds == task_cfg.val.datasets.val IN
             /\ DOMAIN eval_results = {ds[p] : p \in DOMAIN ds}
             /\ Cardinality(EvalsOf(cur)) = Len(ds)
             /\ \A n \in DOMAIN eval_results :
                   \E i \in EvalsOf(cur) :
                      /\ ds[log[i].ds] = n
                      /\ eval_results[n] = [task |-> cur, pass |-> log[i].ds, name |-> n]
             /\ (pc = "done" /\ ~IsBatch => result = Dict(eval_results))

C8_Witness ==
    /\ InTask
    /\ task_cfg.val.eval_backend = NATIVE
    /\ pc = "task_ret"
    /\ task_cfg.val.datasets.val = <<"humaneval", "arc">>
    /\ DOMAIN eval_results = {"arc", "humaneval"}
    /\ eval_results["arc"].pass = 2
    /\ eval_results["humaneval"].pass = 1

-----------------------------------------------------------------------------
(* C9: for each dataset of a native run exactly one model adapter is       *)
(* constructed: the dummy adapter when dry_run is set; otherwise, with     *)
(* eval_type custom, the custom-model wrapper, or a ValueError and no      *)
(* adapter if the model is no CustomModel; otherwise the benchmark's       *)
(* checkpoint-backed adapter class.                                        *)
AdaptersOf(t, d) ==
    {i \in EventsOf(t) : log[i].ev = "model_adapter" /\ log[i].ds = d}

C9_ModelAdapterChoice ==
    /\ \A i \in DOMAIN log :
          log[i].ev = "model_adapter" =>
             LET cfg == task_list[log[i].task].val IN
             /\ cfg.dry_run => log[i].what = "DummyChatModel"
             /\ (~cfg.dry_run /\ cfg.eval_type = CUSTOM)
                   => log[i].what = "CustomModelAdapter" /\ cfg.model.cls = "CustomModel"
             /\ (~cfg.dry_run /\ cfg.eval_type # CUSTOM) => log[i].what = "ModelAdapterClass"
    /\ \A i \in DOMAIN log :
          log[i].ev \in {"evaluator", "eval"} =>
             /\ Cardinality(AdaptersOf(log[i].task, log[i].ds)) = 1
             /\ \A j \in AdaptersOf(log[i].task, log[i].ds) : j < i
    /\ \A i \in DOMAIN log : Cardinality(AdaptersOf(log[i].task, log[i].ds)) <= 1
    /\ exc = CustomModelError =>
          /\ pc = "raised"
          /\ ~task_cfg.val.dry_run
          /\ task_cfg.val.eval_type = CUSTOM
          /\ task_cfg.val.model.cls # "CustomModel"
          /\ AdaptersOf(cur, k) = {}
    /\ (InTask /\ pc \in {"evaluator", "eval"} /\ ~task_cfg.val.dry_run
          /\ task_cfg.val.eval_type = CUSTOM)
          => task_cfg.val.model.cls = "CustomModel"

C9_Witness ==
    /\ InTask
    /\ pc = "task_ret"
    /\ task_cfg.val.dry_run
    /\ task_cfg.val.eval_type = CUSTOM
    /\ task_cfg.val.model.cls = "str"
    /\ Len(task_cfg.val.datasets.val) = 2
    /\ Cardinality({i \in EventsOf(cur) : log[i].ev = "model_adapter"
                                          /\ log[i].what = "DummyChatModel"}) = 2

-----------------------------------------------------------------------------
(* C10: TaskConfig.registry(name, data_pattern, ...) with a data_pattern   *)
(* that is not registered raises nothing and leaves the registry as it     *)
(* was: the same names, the same entries, and no entry under the new name. *)
C10_UnknownBaseLeavesRegistry ==
    (reg_call.op = "registry" /\ reg_call.data_pattern \notin DOMAIN reg_before)
        => /\ ~reg_call.raised
           /\ DOMAIN registry_tasks = DOMAIN reg_before
           /\ \A n \in DOMAIN reg_before : registry_tasks[n] = reg_before[n]
           /\ (reg_call.name \notin DOMAIN reg_before
                  => reg_call.name \notin DOMAIN registry_tasks)

C10_Witness ==
    /\ reg_call.op = "registry"
    /\ reg_call.name = "arc_swift"
    /\ reg_call.data_pattern = "unknown_task"
    /\ reg_call.dataset_dir # None
    /\ "arc_swift" \notin DOMAIN registry_tasks
    /\ reg_calls = 1

-----------------------------------------------------------------------------
\* a call of TaskConfig.registry that found its base entry
Derived == reg_call.op = "registry" /\ reg_call.data_pattern \in DOMAIN reg_before

IdsOf(registry) == {registry[n].id : n \in DOMAIN registry}

(* C11 (as stated): a successful derive stores under the new name a copy of *)
(* the base entry in which only the dataset directory and the subset list  *)
(* are overridden, and only those supplied; the base entry and every other *)
(* registered entry are unchanged by the call.                             *)
C11_OnlyDirAndSubsetsOverridden ==
    Derived =>
        LET e == registry_tasks[reg_call.name].val
            b == reg_before[reg_call.data_pattern].val
        IN /\ \A f \in DOMAIN b \ {"dataset_args"} : e[f] = b[f]
           /\ (reg_call.dataset_dir = None /\ reg_call.subset_list = None)
                 => e.dataset_args = b.dataset_args
           /\ registry_tasks[reg_call.data_pattern] = reg_before[reg_call.data_pattern]
           /\ \A n \in DOMAIN reg_before \ {reg_call.name} :
                 registry_tasks[n] = reg_before[n]

(* C11 (amended): a successful derive stores under the new name a new      *)
(* object, a deep copy of the base entry in which datasets is set to the   *)
(* list of the base name alone, dataset_args is replaced by a mapping from *)
(* the base name to the dataset directory (as local_path) and the subset   *)
(* list, each only if supplied, and eval_type is reset to checkpoint; all  *)
(* other fields are the base's.  Every entry under another name is         *)
(* unchanged by the call (the base too, unless the new name is the base    *)
(* name), no two names ever hold the same object, and a later load through *)
(* one name changes no entry under another name.                           *)
C11_DeriveStoresResetCopy ==
    /\ Derived =>
        LET e == registry_tasks[reg_call.name].val
            b == reg_before[reg_call.data_pattern].val
            a == e.dataset_args[reg_call.data_pattern]
        IN /\ \A f \in DOMAIN b \ {"datasets", "dataset_args", "eval_type"} : e[f] = b[f]
           /\ e.datasets = List(<<reg_call.data_pattern>>)
           /\ e.eval_type = CHECKPOINT
           /\ DOMAIN e.dataset_args = {reg_call.data_pattern}
           /\ DOMAIN a = {key \in {"local_path", "subset_list"} :
                             \/ key = "local_path" /\ reg_call.dataset_dir # None
                             \/ key = "subset_list" /\ reg_call.subset_list # None}
           /\ "local_path" \in DOMAIN a => a.local_path = reg_call.dataset_dir
           /\ "subset_list" \in DOMAIN a => a.subset_list = reg_call.subset_list
           /\ registry_tasks[reg_call.name].id \notin IdsOf(reg_before)
           /\ \A n \in DOMAIN reg_before \ {reg_call.name} :
                 registry_tasks[n] = reg_before[n]
    /\ \A n1, n2 \in DOMAIN registry_tasks :
          n1 # n2 => registry_tasks[n1].id # registry_tasks[n2].id
    /\ reg_call.op = "load" =>
          \A n \in DOMAIN reg_before :
              (\A i \in DOMAIN reg_call.tasks : reg_call.tasks[i] # n)
                  => registry_tasks[n] = reg_before[n]

\* a derived entry with both overrides, then modified by a load of its own
C11_Witness ==
    /\ reg_call.op = "load"
    /\ reg_call.tasks = <<"arc_swift">>
    /\ "arc_swift" \in DOMAIN registry_tasks
    /\ DOMAIN registry_tasks["arc_swift"].val.dataset_args["arc"] = {"local_path", "subset_list"}
    /\ registry_tasks["arc_swift"].val.model = reg_call.custom_model
    /\ registry_tasks["arc"].val.model = None

-----------------------------------------------------------------------------
Range(seq) == {seq[i] : i \in DOMAIN seq}

(* C12: last registration wins: after a successful call of                 *)
(* TaskConfig.registry the name holds the entry that call built (a new     *)
(* object made from the base entry as the call found it), also when the    *)
(* name was registered before, is a built-in task or is the base name; the *)
(* entries under all other names stay; and list() returns the names        *)
(* registered so far, each once: those it returned before and the new one. *)
C12_LastRegistrationWins ==
    /\ Derived =>
          /\ registry_tasks[reg_call.name].id \notin IdsOf(reg_before)
          /\ registry_tasks[reg_call.name].val.datasets = List(<<reg_call.data_pattern>>)
          /\ registry_tasks[reg_call.name].val.model
                = reg_before[reg_call.data_pattern].val.model
          /\ Get(registry_tasks[reg_call.name].val.dataset_args[reg_call.data_pattern],
                 "local_path", None) = reg_call.dataset_dir
          /\ \A n \in DOMAIN reg_before \ {reg_call.name} :
                registry_tasks[n].id = reg_before[n].id
          /\ Range(list(registry_keys).val) = DOMAIN reg_before \cup {reg_call.name}
    /\ ~Derived => Range(list(registry_keys).val) = DOMAIN reg_before
    /\ Range(list(registry_keys).val) = DOMAIN registry_tasks
    /\ \A i, j \in DOMAIN list(registry_keys).val :
          list(registry_keys).val[i] = list(registry_keys).val[j] => i = j

\* a built-in name, registered a second time with itself as base
C12_Witness ==
    /\ Derived
    /\ reg_call.name = "arc"
    /\ reg_call.data_pattern = "arc"
    /\ reg_call.dataset_dir = None
    /\ reg_before["arc"].id > Len(tasks)
    /\ reg_before["arc"].val.dataset_args["arc"] # EmptyDict
    /\ registry_tasks["arc"].val.dataset_args["arc"] = EmptyDict
    /\ Len(list(registry_keys).val) = Len(tasks) + 1

-----------------------------------------------------------------------------
(* C13: a registry entry is immutable once registered: TaskConfig.load     *)
(* leaves every field of every registry entry, model included, as it was.  *)
C13_LoadLeavesRegistry ==
    reg_call.op = "load" => registry_tasks = reg_before

-----------------------------------------------------------------------------
\* the ladder positions of the patterns that match the text somewhere
Matching == {p \in DOMAIN patterns(options) : search(patterns(options)[p], text).found}

\* match.group(0) of pattern p
Span(p) == search(patterns(options)[p], text).group0

\* the options that occur in a span
OptionsIn(span) == {options[i] : i \in {i \in DOMAIN options : \E j \in DOMAIN span : span[j] = options[i]}}

\* the option that comes first in the caller's order
FirstOf(opts) ==
    options[CHOOSE i \in DOMAIN options :
                /\ options[i] \in opts
                /\ \A j \in DOMAIN options : options[j] \in opts => i <= j]

Lowest(ps) == CHOOSE p \in ps : \A q \in ps : p <= q

(* C14 (as stated): the first pattern of the ladder that matches anywhere  *)
(* in the text decides: the result is the first option, in the caller's    *)
(* order, that occurs in that pattern's matched span, later patterns are   *)
(* not consulted, and the empty string is returned only if no pattern      *)
(* matches.                                                                *)
C14_FirstMatchingPatternDecides ==
    parsed # None =>
        IF Matching = {} THEN parsed = Str("")
        ELSE /\ OptionsIn(Span(Lowest(Matching))) # {}
             /\ parsed = Str(FirstOf(OptionsIn(Span(Lowest(Matching)))))

\* the patterns whose matched span holds one of the options
Deciding == {p \in Matching : OptionsIn(Span(p)) # {}}

(* C14 (amended): the first pattern of the ladder whose leftmost match     *)
(* holds one of the options decides: the result is the first option, in    *)
(* the caller's order, that occurs in that matched span.  A pattern that   *)
(* matches a span holding no option is passed over and the later patterns  *)
(* are consulted; the empty string is returned exactly if no pattern       *)
(* matches a span that holds an option.                                    *)
C14_FirstSpanWithOptionDecides ==
    parsed # None =>
        IF Deciding = {} THEN parsed = Str("")
        ELSE parsed = Str(FirstOf(OptionsIn(Span(Lowest(Deciding)))))

\* an earlier pattern matches a span without option, a later one decides
C14_Witness ==
    /\ parsed = Str("C")
    /\ text = <<"da", "an", "shi", "|", "C">>
    /\ Matching # {}
    /\ Lowest(Matching) < Lowest(Deciding)
    /\ OptionsIn(Span(Lowest(Matching))) = {}

-----------------------------------------------------------------------------
(* C15: with the options A, B, C, D the parser returns C for "da an shi C" *)
(* (the answer is C) and B for "The correct answer is B."; it returns the  *)
(* empty string for every text no pattern of the ladder matches, and for   *)
(* every text that holds none of the option letters.                       *)
C15_Examples ==
    (parsed # None /\ options = choices) =>
        /\ text = <<"da", "an", "shi", "C">> => parsed = Str("C")
        /\ text = <<"T", "h", "e", " ", "c", "o", "r", "r", "e", "c", "t", " ",
                    "a", "n", "s", "w", "e", "r", " ", "i", "s", " ", "B", ".">>
              => parsed = Str("B")
        /\ Matching = {} => parsed = Str("")
        /\ OptionsIn(text) = {} => parsed = Str("")

C15_Witness ==
    /\ options = choices
    /\ parsed = Str("B")
    /\ Len(text) = 24
    /\ text[23] = "B"
    /\ text[24] = "."
    /\ text[1] = "T"

-----------------------------------------------------------------------------
\* the fields of a record that the dataset gave it
Data(input) == [f \in DOMAIN input \ {"answer"} |-> input[f]]

(* C16: given a fixed seed, two gen_prompt calls for the same record yield *)
(* the same prompt bundle (the same order of the four choices) and the     *)
(* same gold label, however many gen_prompt calls were made in between.    *)
C16_SameRecordSameBundle ==
    \A i, j \in DOMAIN prompt_log :
        (/\ Data(prompt_log[i].input) = Data(prompt_log[j].input)
         /\ prompt_log[i].rng.seed = prompt_log[j].rng.seed)
            => /\ prompt_log[i].out = prompt_log[j].out
               /\ prompt_log[i].answer = prompt_log[j].answer

-----------------------------------------------------------------------------
\* the state of the generator n shuffles after random.seed(seed)
RECURSIVE StateAfter(_, _)
StateAfter(seed, n) ==
    IF n = 0 THEN seed % RngStates ELSE NextState(StateAfter(seed, n - 1))

\* the place of call i among the gen_prompt calls of its task
Rank(i) == Cardinality({j \in 1..i : prompt_log[j].task = prompt_log[i].task})

(* C17: the seed is set at the start of each task, before any shuffle: the *)
(* k-th gen_prompt call of a task finds the generator in the state that    *)
(* the task's seed and k fix, whatever ran earlier in the process; so two  *)
(* tasks with the same configuration, the first and the second of a batch  *)
(* for one, produce the same sequence of prompts and gold labels.          *)
C17_PromptsFixedBySeed ==
    /\ \A i \in DOMAIN prompt_log :
          LET seed == task_list[prompt_log[i].task].val.seed IN
          /\ prompt_log[i].rng = [seed |-> seed, state |-> StateAfter(seed, Rank(i) - 1)]
          /\ prompt_log[i].out = gen_prompt(prompt_log[i].input, prompt_log[i].rng).out
    /\ \A i, j \in DOMAIN prompt_log :
          (/\ task_list[prompt_log[i].task].val.seed = task_list[prompt_log[j].task].val.seed
           /\ task_list[prompt_log[i].task].val.datasets
                 = task_list[prompt_log[j].task].val.datasets
           /\ Rank(i) = Rank(j))
              => /\ prompt_log[i].out = prompt_log[j].out
                 /\ prompt_log[i].answer = prompt_log[j].answer

\* the second task of a batch, after a first task of two datasets, with the
\* same seed: its first prompt is the first prompt of the first task
C17_Witness ==
    /\ Len(prompt_log) >= 6
    /\ prompt_log[1].task = 1
    /\ prompt_log[4].task = 1
    /\ prompt_log[5].task = 2
    /\ prompt_log[5].out = prompt_log[1].out
    /\ prompt_log[3].out # prompt_log[1].out
    /\ prompt_log[6].out = prompt_log[2].out
    /\ prompt_log[5].rng # prompt_log[4].rng

-----------------------------------------------------------------------------
(* C18: for every record and every state of the generator, the prompt      *)
(* presents exactly the four preprocessed answers of the record, labelled  *)
(* A, B, C, D in their shuffled order, and the gold label attached to the  *)
(* record is one of A, B, C, D and is the label of a position that holds   *)
(* the text of the correct answer, also when an incorrect answer has the   *)
(* same text.                                                              *)
C18_GoldLabelFollowsShuffle ==
    \A n \in DOMAIN prompt_log :
        LET e == prompt_log[n]
            shown == e.out.data[1].options
            answers == <<preprocess(e.input["Incorrect Answer 1"]),
                         preprocess(e.input["Incorrect Answer 2"]),
                         preprocess(e.input["Incorrect Answer 3"]),
                         preprocess(e.input["Correct Answer"])>>
        IN /\ Len(shown) = 4
           /\ \A i \in 1..4 : shown[i][1] = <<"A", "B", "C", "D">>[i]
           /\ \E p \in Permutations(1..4) : \A i \in 1..4 : shown[i][2] = answers[p[i]]
           /\ e.answer \in {"A", "B", "C", "D"}
           /\ \E i \in 1..4 : shown[i][1] = e.answer /\ shown[i][2] = answers[4]
           /\ e.out.multi_choices = <<"A", "B", "C", "D">>

\* an incorrect answer that reads like the correct one after preprocessing
C18_Witness ==
    \E n \in DOMAIN prompt_log :
        LET e == prompt_log[n] IN
        /\ e.input["Incorrect Answer 1"] = Str(<<"4", "[", "1", "]">>)
        /\ e.input["Correct Answer"] = Str(<<" ", "4">>)
        /\ e.answer = "B"
        /\ e.out.data[1].options[2][2] = <<"4">>
        /\ e.out.data[1].options[4][2] = <<"4">>
        /\ n = 3

-----------------------------------------------------------------------------
(* C19: normalize_score *)

\* the distance between two floats
Distance(x, y) == IF x.val >= y.val THEN x.val - y.val ELSE y.val - x.val

\* the floats with keep_num decimal digits next to which a score can lie
Decimals == {Decimal(d) : d \in 0..Power(10, keep_num)}

IsEven(x) == (x.val \div Binary) % 2 = 0

NearestEven(x, y) ==
    /\ y \in Decimals
    /\ 2 * Distance(x, y) <= Binary
    /\ 2 * Distance(x, y) = Binary => IsEven(y)

-----------------------------------------------------------------------------
(* C20: the round trip through to_dict and from_dict *)

\* C20 as stated: for every TaskConfig reachable by construction followed by
\* any number of update calls, TaskConfig.from_dict(cfg.to_dict()) succeeds and
\* yields a config equal to the original field for field, with a model object
\* preserved by reference (the very object, with its identity).
C20_RoundTrip ==
    restored # None =>
        /\ restored.ok
        /\ \A f \in DOMAIN DefaultFields : restored.obj.val[f] = config.val[f]

-----------------------------------------------------------------------------
(* C22: a failing write of the task-config dump *)

\* the tasks whose dump could not be written
DumpFailed == {t \in DOMAIN task_list :
                  \E i \in EventsOf(t) : log[i].ev = "dump" /\ log[i].what = "warning"}

\* the datasets of a config at which run_single_task raises, whatever became
\* of the dump: humaneval without a local path, a custom run without CustomModel
FailingDatasets(cfg) ==
    {p \in DOMAIN cfg.datasets.val :
        HumanevalPathMissing(cfg, cfg.datasets.val[p]) \/ ModelAdapterFor(cfg) = ""}

\* C22: a failure to write the task-config dump does not abort the run: it is
\* logged as a warning, run_single_task raises only at a dataset that raises
\* with a written dump as well, every dataset is evaluated otherwise, and the
\* mapping returned is the one the config determines, as after a successful
\* write.
C22_DumpFailureNotFatal ==
    \A t \in DumpFailed :
        LET cfg == task_list[t].val IN
        /\ (cur = t /\ pc = "raised") =>
              /\ FailingDatasets(cfg) # {}
              /\ exc \in {LocalPathError, CustomModelError}
        /\ (cur = t /\ pc \in {"task_ret", "done"}) =>
              /\ Cardinality(EvalsOf(t)) = Len(cfg.datasets.val)
              /\ eval_results = ExpectedResult(t, cfg)
        /\ (cur = t /\ pc = "done" /\ ~IsBatch) => result = Dict(ExpectedResult(t, cfg))
        /\ t \in DOMAIN batch_results => batch_results[t] = ExpectedResult(t, cfg)

\* the dump of a run of two datasets failed, and the run returned both results
C22_Witness ==
    /\ ~IsBatch
    /\ pc = "done"
    /\ 1 \in DumpFailed
    /\ DOMAIN result.val = {"arc", "humaneval"}
    /\ Cardinality(EvalsOf(1)) = 2

-----------------------------------------------------------------------------
(* C24: the work directory run_single_task resolves *)

\* run_single_task has set the work directory of task t
Resolved(t) ==
    /\ t \in DOMAIN task_list
    /\ task_list[t].cls = "TaskConfig"
    /\ t < cur \/ (t = cur /\ pc # "call")

\* the config of task t as run_single_task was entered with it
Passed(t) == IF IsBatch THEN arg.val[t].val ELSE Normalize(arg).obj.val

\* C24: run_single_task sets work_dir of the config it is passed to use_cache
\* if use_cache is set, otherwise to default/<run_time> if work_dir is the
\* default, and otherwise leaves it; no other field changes; another run of the
\* resolved config, with any run_time, resolves to the work_dir it has; and
\* the tasks of a batch are resolved with one run_time, so that those with the
\* default work_dir and no use_cache share one directory.
C24_WorkDirResolution ==
    \A t \in DOMAIN task_list : Resolved(t) =>
        LET before == Passed(t)
            after == task_list[t].val
        IN
        /\ after.work_dir =
              IF before.use_cache # None /\ before.use_cache.val # <<>> THEN before.use_cache
              ELSE IF before.work_dir = DEFAULT_WORK_DIR
                   THEN Str(DEFAULT_WORK_DIR.val \o <<run_time>>)
                   ELSE before.work_dir
        /\ \A f \in DOMAIN before \ {"work_dir"} : after[f] = before[f]
        /\ \A now \in RunTimes : ResolveWorkDir(after, now) = after.work_dir
        /\ \A u \in DOMAIN task_list :
              (Resolved(u) /\ Passed(u).work_dir = before.work_dir
                  /\ Passed(u).use_cache = before.use_cache)
                  => task_list[u].val.work_dir = after.work_dir

\* both tasks of a batch had the default work directory, and both were run in
\* default/<run_time>
C24_Witness ==
    /\ IsBatch
    /\ pc = "done"
    /\ Len(task_list) = 2
    /\ \A t \in 1..2 :
          /\ Resolved(t)
          /\ Passed(t).work_dir = DEFAULT_WORK_DIR
          /\ Passed(t).use_cache = None
          /\ task_list[t].val.work_dir = PathJoin(DEFAULT_WORK_DIR, run_time)

-----------------------------------------------------------------------------
(* C23: get_gold_answer after gen_prompt *)

\* the options of the prompt the n-th gen_prompt call on the record returned
Shown(n) == prompt_log[n].out.data[1].options

\* the text of the record's correct answer as the prompts show it
CorrectText == preprocess(input_d["Correct Answer"])

\* C23: get_gold_answer on a record that no gen_prompt call has been made on
\* finds no 'answer' field; after gen_prompt calls on the record it returns the
\* label under which the most recent of them shows the correct answer (the
\* first such label in that prompt's order), whatever the earlier prompts
\* showed under that label.
C23_GoldOfLatestPrompt ==
    gold # None =>
        IF gold.calls = 0 THEN ~gold.ok
        ELSE /\ gold.ok
             /\ \E i \in 1..4 :
                   /\ Shown(gold.calls)[i][1] = gold.val
                   /\ Shown(gold.calls)[i][2] = CorrectText
                   /\ \A j \in 1..(i - 1) : Shown(gold.calls)[j][2] # CorrectText

\* after two gen_prompt calls get_gold_answer returned a label under which
\* the first prompt shows an incorrect answer
C23_Witness ==
    /\ gold # None
    /\ gold.calls = 2
    /\ gold.ok
    /\ \E i \in 1..4 :
          /\ Shown(1)[i][1] = gold.val
          /\ Shown(1)[i][2] # CorrectText
    /\ \E i \in 1..4 :
          /\ Shown(2)[i][1] = gold.val
          /\ Shown(2)[i][2] = CorrectText

-----------------------------------------------------------------------------
(* C21: a run resumed from use_cache *)

\* the inference runs on the subset of a result file, as indices of inferred
RunsOn(file) == {j \in DOMAIN inferred : inferred[j].file = file}

\* the result files of a subset that are in a directory, from whatever run
FilesOf(file) ==
    {f \in result_files : [dir |-> f.dir, name |-> f.name, subset |-> f.subset] = file}

====
